---- MODULE Spec2Model ----
(***************************************************************************)
(* Model of src/libutil/error.cc: the rendering of an ErrorInfo to an      *)
(* output stream (operator<<), the extraction of the lines of code around  *)
(* an error position (getCodeLines) and their printing (printCodeLines).   *)
(*                                                                         *)
(* A std::string is a sequence of one-character strings; the escape        *)
(* character is the element "ESC".  A std::optional<T> is a sequence of    *)
(* length 0 (nullopt) or 1.  The output stream is the sequence of the      *)
(* lines written to it (each "<< std::endl" ends a line).                  *)
(***************************************************************************)
EXTENDS Integers, Sequences, FiniteSets, TLC

\* ------------------------------------------------------------------ bounds

\* Longest ErrorInfo::name drawn by the header specification.
MaxNameLen == 82
\* Largest positive errPos.line drawn by the rendering specification.
MaxLine == 4
\* Most lines a source file holds in the rendering specification.
MaxFileLines == 3
\* Largest errPos.column drawn.
MaxColumn == 4

\* ----------------------------------------------------------------- strings

nullopt == <<>>

has_value(o) == o # <<>>

value_or(o, d) == IF o # <<>> THEN o[1] ELSE d

\* n copies of the character c.
Rep(c, n) == [i \in 1..n |-> c]

RECURSIVE Digits(_)
\* The decimal digits of a natural number.
Digits(n) ==
  LET d == <<"0", "1", "2", "3", "4", "5", "6", "7", "8", "9">>[(n % 10) + 1]
  IN IF n < 10 THEN <<d>> ELSE Digits(n \div 10) \o <<d>>

\* "%1%" applied to an int.
IntToStr(n) == IF n < 0 THEN <<"-">> \o Digits(-n) ELSE Digits(n)

\* "%|2$5d|": the int right-aligned in a field of 5, wider when it needs more.
Fmt5d(n) ==
  LET s == IntToStr(n)
  IN IF Len(s) >= 5 THEN s ELSE Rep(" ", 5 - Len(s)) \o s

\* ------------------------------------------------------------------ colors

\* Whether the ANSI_* macros are escape sequences or empty strings.
VARIABLE ansi

ANSI_NORMAL == IF ansi THEN <<"ESC", "[", "0", "m">> ELSE <<>>
ANSI_RED == IF ansi THEN <<"ESC", "[", "3", "1", ";", "1", "m">> ELSE <<>>
ANSI_GREEN == IF ansi THEN <<"ESC", "[", "3", "2", ";", "1", "m">> ELSE <<>>
ANSI_YELLOW == IF ansi THEN <<"ESC", "[", "3", "3", ";", "1", "m">> ELSE <<>>
ANSI_BLUE == IF ansi THEN <<"ESC", "[", "3", "4", ";", "1", "m">> ELSE <<>>

\* Whether s[i] belongs to an escape sequence: an ESC at or before i with no
\* closing "m" between the two.
InEscape(s, i) ==
  \E j \in 1..i : s[j] = "ESC" /\ \A k \in j..(i - 1) : s[k] # "m"

\* What a terminal shows of s: s without its escape sequences.
Visible(s) ==
  LET marked == [i \in 1..Len(s) |-> [c |-> s[i], esc |-> InEscape(s, i)]]
      Shown(m) == ~m.esc
      kept == SelectSeq(marked, Shown)
  IN [i \in 1..Len(kept) |-> kept[i].c]

\* How many times the character c occurs in s.
CountChar(s, c) == Cardinality({i \in 1..Len(s) : s[i] = c})

\* --------------------------------------------------------------- verbosity

lvlError == 0
lvlWarn == 1
lvlInfo == 2
lvlTalkative == 3
lvlChatty == 4
lvlDebug == 5
lvlVomit == 6

\* The enumeration, and one value outside it.
Verbosity == lvlError..lvlVomit
InvalidLevel == lvlVomit + 1

\* The label's text without its colors.
LevelText(level) ==
  CASE level = lvlError -> <<"e", "r", "r", "o", "r", ":">>
    [] level = lvlWarn -> <<"w", "a", "r", "n", "i", "n", "g", ":">>
    [] level = lvlInfo -> <<"i", "n", "f", "o", ":">>
    [] level = lvlTalkative -> <<"t", "a", "l", "k", ":">>
    [] level = lvlChatty -> <<"c", "h", "a", "t", ":">>
    [] level = lvlVomit -> <<"v", "o", "m", "i", "t", ":">>
    [] level = lvlDebug -> <<"d", "e", "b", "u", "g", ":">>
    [] OTHER -> <<"i", "n", "v", "a", "l", "i", "d", " ", "e", "r", "r", "o", "r",
                  " ", "l", "e", "v", "e", "l", ":", " ">> \o IntToStr(level)

\* levelString as the switch of operator<< builds it.
LevelString(level) ==
  CASE level = lvlError -> ANSI_RED \o LevelText(level) \o ANSI_NORMAL
    [] level \in {lvlWarn, lvlDebug} -> ANSI_YELLOW \o LevelText(level) \o ANSI_NORMAL
    [] level \in {lvlInfo, lvlTalkative, lvlChatty, lvlVomit} ->
         ANSI_GREEN \o LevelText(level) \o ANSI_NORMAL
    [] OTHER -> LevelText(level)

\* ------------------------------------------------------------------ header

errwidth == 80

\* The prefix of operator<<.
prefix == <<>>

\* ndl of operator<<.
Ndl(level, name, progName) ==
  Len(prefix) + Len(LevelString(level)) + 3 + Len(name) + Len(value_or(progName, <<>>))

\* dashwidth of operator<<.
DashWidth(ndl) == IF ndl > (errwidth - 3) THEN 3 ELSE errwidth - ndl

\* dashes of operator<<: the loop appends while i < dashwidth.
Dashes(ndl) == Rep("-", IF DashWidth(ndl) > 0 THEN DashWidth(ndl) ELSE 0)

\* The divider line of operator<<.
HeaderLine(level, name, progName) ==
  LET dashes == Dashes(Ndl(level, name, progName))
      prog == value_or(progName, <<>>)
  IN IF name # <<>>
     THEN prefix \o LevelString(level) \o ANSI_BLUE \o <<" ", "-", "-", "-", " ">>
            \o name \o <<" ">> \o dashes \o <<" ">> \o prog \o ANSI_NORMAL
     ELSE prefix \o LevelString(level) \o ANSI_BLUE \o <<" ", "-", "-", "-", "-", "-">>
            \o dashes \o <<" ">> \o prog \o ANSI_NORMAL

\* ---------------------------------------------------------------- position

\* showErrPos.
showErrPos(errPos) ==
  IF errPos.line > 0
  THEN IF errPos.column > 0
       THEN <<"(">> \o IntToStr(errPos.line) \o <<":">> \o IntToStr(errPos.column) \o <<")">>
       ELSE <<"(">> \o IntToStr(errPos.line) \o <<")">>
  ELSE <<>>

InFile == <<"i", "n", " ", "f", "i", "l", "e", ":", " ">>

FromCommandLine ==
  <<"f", "r", "o", "m", " ", "c", "o", "m", "m", "a", "n", "d", " ",
    "l", "i", "n", "e", " ", "a", "r", "g", "u", "m", "e", "n", "t">>

\* The "filename, line, column" lines of operator<<.
PositionLines(errPos) ==
  IF errPos.file # <<>>
  THEN << prefix \o InFile \o ANSI_BLUE \o errPos.file \o <<" ">> \o showErrPos(errPos)
            \o ANSI_NORMAL,
          prefix >>
  ELSE << prefix \o FromCommandLine, prefix >>

\* The description lines of operator<<.
DescriptionLines(description) ==
  IF description # <<>> THEN << prefix \o description, prefix >> ELSE <<>>

\* ------------------------------------------------------------ printCodeLines

\* One numbered line of code: fmt("%1% %|2$5d|| %3%", prefix, n, text).
CodeLine(pfx, n, text) == pfx \o <<" ">> \o Fmt5d(n) \o <<"|", " ">> \o text

CaretLineNarrow(pfx, column) ==
  pfx \o Rep(" ", 5) \o <<"|">> \o Rep(" ", column) \o ANSI_RED \o <<"^">> \o ANSI_NORMAL

\* The error arrow: fmt("%1%      |%2%" ANSI_RED "%3%" ANSI_NORMAL, prefix, spaces, arrows).
CaretLine(pfx, column) ==
  pfx \o Rep(" ", 6) \o <<"|">> \o Rep(" ", column) \o ANSI_RED \o <<"^">> \o ANSI_NORMAL

ErrLinesCaretUnguarded(pfx, nc) ==
  (IF has_value(nc.errLineOfCode)
   THEN << CodeLine(pfx, nc.errPos.line, nc.errLineOfCode[1]) >>
   ELSE <<>>)
  \o (IF nc.errPos.column > 0 THEN << CaretLine(pfx, nc.errPos.column) >> ELSE <<>>)

\* The lines printCodeLines writes for the line of code containing the error.
ErrLines(pfx, nc) ==
  IF has_value(nc.errLineOfCode)
  THEN << CodeLine(pfx, nc.errPos.line, nc.errLineOfCode[1]) >>
       \o (IF nc.errPos.column > 0 THEN << CaretLine(pfx, nc.errPos.column) >> ELSE <<>>)
  ELSE <<>>

\* printCodeLines: the lines it writes to out.
printCodeLines(pfx, nc) ==
  (IF has_value(nc.prevLineOfCode)
   THEN << CodeLine(pfx, nc.errPos.line - 1, nc.prevLineOfCode[1]) >>
   ELSE <<>>)
  \o ErrLines(pfx, nc)
  \o (IF has_value(nc.nextLineOfCode)
      THEN << CodeLine(pfx, nc.errPos.line + 1, nc.nextLineOfCode[1]) >>
      ELSE <<>>)

\* -------------------------------------------------------------- getCodeLines

\* The file value for which getCodeLines returns without reading.
StringFile == <<"(", "s", "t", "r", "i", "n", "g", ")">>

\* A path that may name a file on disk.
NixFile == <<"a", ".", "n", "i", "x">>

\* The text of line i of the file on disk.
FileLine(i) == <<"l", "i", "n", "e">> \o Digits(i)

\* readLine on its k-th call on a file of n lines whose failAt-th read fails:
\* the line, EndOfFile at the end of the stream, or a SysError.
readLine(f, k) ==
  IF f.failAt = k THEN [kind |-> "SysError", line |-> <<>>]
  ELSE IF k > f.n THEN [kind |-> "EndOfFile", line |-> <<>>]
  ELSE [kind |-> "line", line |-> FileLine(k)]

\* AutoCloseFD's destructor, run when the try block is left.
AutoCloseFD_dtor(h) == IF h = "open" THEN "closed" ELSE h

PlOffByOne(line) == line

\* pl of getCodeLines.
Pl(line) == line - 1

NeverBreaks(cnt, pl) == FALSE

\* Whether the loop of getCodeLines breaks after this line.
LoopBreaks(cnt, pl) == cnt = pl + 2

RecordSkipsErr(nc, cnt, pl, line) ==
  IF cnt < pl THEN nc
  ELSE IF cnt = pl THEN [nc EXCEPT !.prevLineOfCode = <<line>>]
  ELSE IF cnt = pl + 2 THEN [nc EXCEPT !.nextLineOfCode = <<line>>]
  ELSE nc

\* The loop body's if-chain: nixCode after the count-th line was read.
Record(nc, cnt, pl, line) ==
  IF cnt < pl THEN nc
  ELSE IF cnt = pl THEN [nc EXCEPT !.prevLineOfCode = <<line>>]
  ELSE IF cnt = pl + 1 THEN [nc EXCEPT !.errLineOfCode = <<line>>]
  ELSE IF cnt = pl + 2 THEN [nc EXCEPT !.nextLineOfCode = <<line>>]
  ELSE nc

\* ------------------------------------------------------------------- state

VARIABLES
  programName,  \* ErrorInfo::programName
  einfo,        \* the ErrorInfo being written
  pc,           \* where operator<< (or a direct call) stands
  out,          \* the lines written to the output stream
  nixcode,      \* the NixCode getCodeLines fills in
  count,        \* count of getCodeLines
  fd,           \* the AutoCloseFD of getCodeLines: "none", "open" or "closed"
  disk,         \* the file open() found: its lines and the read that fails
  opens,        \* calls of open()
  reads,        \* calls of readLine()
  errlog        \* what printError logged

vars == <<ansi, programName, einfo, pc, out, nixcode, count, fd, disk, opens, reads, errlog>>

NoDisk == [n |-> 0, failAt |-> 0]

\* A NixCode that holds a position and no line of code yet.
NixCodeAt(file, line, column) ==
  [errPos |-> [file |-> file, line |-> line, column |-> column],
   prevLineOfCode |-> nullopt, errLineOfCode |-> nullopt, nextLineOfCode |-> nullopt]

NoNixCode == NixCodeAt(<<>>, 0, 0)

Hint == <<"t", "r", "y", " ", "x">>
Oops == <<"o", "o", "p", "s">>
Nix == <<"n", "i", "x">>

Lines == {-1, 0, 10} \cup (1..MaxLine)
Columns == {0, 2, MaxColumn}
Files == {<<>>, StringFile, NixFile}

\* The state before operator<< runs, the rest of it given.
Start(names, levels, nixCodes) ==
  /\ ansi \in BOOLEAN
  /\ programName \in {nullopt, <<Nix>>}
  /\ einfo \in [level : levels, name : names, description : {<<>>, Oops},
                hint : {nullopt, <<Hint>>}, nixCode : nixCodes]
  /\ out = <<>>
  /\ nixcode = NoNixCode
  /\ count = 0
  /\ fd = "none"
  /\ disk = NoDisk
  /\ opens = 0
  /\ reads = 0
  /\ errlog = <<>>

\* An ErrorInfo with or without a position, about to be written.
Init ==
  /\ Start({<<>>, <<"E">>}, {lvlError, InvalidLevel},
           {nullopt} \cup {<<NixCodeAt(f, l, c)>> : f \in Files, l \in Lines, c \in Columns})
  /\ pc = "divider"

\* ---------------------------------------------------------------- operator<<

\* The divider.
EmitHeader ==
  /\ pc = "divider"
  /\ out' = Append(out, HeaderLine(einfo.level, einfo.name, programName))
  /\ pc' = "position"
  /\ UNCHANGED <<ansi, programName, einfo, nixcode, count, fd, disk, opens, reads, errlog>>

\* filename, line, column.
EmitPosition ==
  /\ pc = "position"
  /\ out' = IF has_value(einfo.nixCode)
            THEN out \o PositionLines(einfo.nixCode[1].errPos)
            ELSE out
  /\ pc' = "description"
  /\ UNCHANGED <<ansi, programName, einfo, nixcode, count, fd, disk, opens, reads, errlog>>

\* description; without a nixCode operator<< then returns.
EmitDescription ==
  /\ pc = "description"
  /\ out' = out \o DescriptionLines(einfo.description)
  /\ IF has_value(einfo.nixCode)
     THEN pc' = "getCodeLines" /\ nixcode' = einfo.nixCode[1]
     ELSE pc' = "done" /\ nixcode' = nixcode
  /\ UNCHANGED <<ansi, programName, einfo, count, fd, disk, opens, reads, errlog>>

\* getCodeLines up to its loop: the two early returns, then open().
GetCodeLinesOpen ==
  /\ pc = "getCodeLines"
  /\ IF nixcode.errPos.line <= 0 \/ nixcode.errPos.file = StringFile
     THEN /\ pc' = "printCodeLines"
          /\ UNCHANGED <<fd, disk, opens, errlog, count>>
     ELSE /\ opens' = opens + 1
          /\ \/ \* open() fails: the SysError is caught and logged.
                /\ errlog' = Append(errlog, "opening file")
                /\ pc' = "printCodeLines"
                /\ UNCHANGED <<fd, disk, count>>
             \/ \* open() succeeds; the empty path names no file.
                /\ nixcode.errPos.file # <<>>
                /\ \E n \in 0..MaxFileLines, failAt \in 0..(MaxFileLines + 1) :
                     disk' = [n |-> n, failAt |-> failAt]
                /\ fd' = "open"
                /\ count' = 0
                /\ pc' = "readLine"
                /\ UNCHANGED errlog
  /\ UNCHANGED <<ansi, programName, einfo, out, nixcode, reads>>

\* One pass of the loop of getCodeLines, and the handlers that end it.
GetCodeLinesRead ==
  /\ pc = "readLine"
  /\ reads' = reads + 1
  /\ LET r == readLine(disk, reads + 1)
         pl == Pl(nixcode.errPos.line)
     IN CASE r.kind = "EndOfFile" ->
               /\ fd' = AutoCloseFD_dtor(fd)
               /\ pc' = "printCodeLines"
               /\ UNCHANGED <<count, nixcode, errlog>>
          [] r.kind = "SysError" ->
               /\ fd' = AutoCloseFD_dtor(fd)
               /\ errlog' = Append(errlog, "reading a line")
               /\ pc' = "printCodeLines"
               /\ UNCHANGED <<count, nixcode>>
          [] OTHER ->
               /\ count' = count + 1
               /\ nixcode' = Record(nixcode, count + 1, pl, r.line)
               /\ IF LoopBreaks(count + 1, pl)
                  THEN fd' = AutoCloseFD_dtor(fd) /\ pc' = "printCodeLines"
                  ELSE UNCHANGED <<fd, pc>>
               /\ UNCHANGED errlog
  /\ UNCHANGED <<ansi, programName, einfo, out, disk, opens>>

\* lines of code.
EmitCodeLines ==
  /\ pc = "printCodeLines"
  /\ out' = IF has_value(nixcode.errLineOfCode)
            THEN out \o printCodeLines(prefix, nixcode) \o <<prefix>>
            ELSE out
  /\ pc' = "hint"
  /\ UNCHANGED <<ansi, programName, einfo, nixcode, count, fd, disk, opens, reads, errlog>>

\* What *einfo.hint may yield when hint holds no value: the behaviour is
\* undefined, so the process may die or any text may be written.
Garbage == {<<>>, <<"?", "?">>}

\* hint.
EmitHint ==
  /\ pc = "hint"
  /\ IF has_value(einfo.hint)
     THEN out' = out \o << prefix \o einfo.hint[1], prefix >> /\ pc' = "done"
     ELSE \/ pc' = "crashed" /\ out' = out
          \/ \E g \in Garbage : out' = out \o << prefix \o g, prefix >> /\ pc' = "done"
  /\ UNCHANGED <<ansi, programName, einfo, nixcode, count, fd, disk, opens, reads, errlog>>

Next ==
  \/ EmitHeader
  \/ EmitPosition
  \/ EmitDescription
  \/ GetCodeLinesOpen
  \/ GetCodeLinesRead
  \/ EmitCodeLines
  \/ EmitHint

Spec == Init /\ [][Next]_vars

\* operator<< runs on one thread and never waits: a step that can be taken is.
LiveSpec == Spec /\ WF_vars(Next)

\* ------------------------------------------------- the divider on its own

\* Every severity, names of every length up to MaxNameLen, no position.
InitHeader ==
  /\ Start({Rep("N", k) : k \in 0..MaxNameLen}, Verbosity \cup {InvalidLevel}, {nullopt})
  /\ pc = "divider"

NextHeader ==
  \/ EmitHeader
  \/ EmitPosition
  \/ EmitDescription

SpecHeader == InitHeader /\ [][NextHeader]_vars

\* ----------------------------------------------- printCodeLines on its own

PrintLines == {1, 3, 9, 10, 99998, 99999, 100000}
LetX == <<"l", "e", "t", " ", "x", " ", "=">>

\* Any NixCode a caller may hand to printCodeLines.
InitPrint ==
  /\ ansi \in BOOLEAN
  /\ programName = nullopt
  /\ nixcode \in [errPos : [file : {NixFile}, line : PrintLines, column : 0..MaxColumn],
                  prevLineOfCode : {nullopt, <<LetX>>},
                  errLineOfCode : {nullopt, <<LetX>>, <<<<"x">>>>},
                  nextLineOfCode : {nullopt, <<LetX>>}]
  /\ einfo = [level |-> lvlError, name |-> <<>>, description |-> <<>>,
              hint |-> nullopt, nixCode |-> <<nixcode>>]
  /\ pc = "call"
  /\ out = <<>>
  /\ count = 0
  /\ fd = "none"
  /\ disk = NoDisk
  /\ opens = 0
  /\ reads = 0
  /\ errlog = <<>>

\* printCodeLines(out, prefix, nixCode), called from outside operator<<.
PrintCodeLinesCall ==
  /\ pc = "call"
  /\ out' = out \o printCodeLines(prefix, nixcode)
  /\ pc' = "returned"
  /\ UNCHANGED <<ansi, programName, einfo, nixcode, count, fd, disk, opens, reads, errlog>>

SpecPrint == InitPrint /\ [][PrintCodeLinesCall]_vars

\* ------------------------------------------------------------------ claims

\* usedWidth of the divider: len(prefix) + len(label) + 3 + len(name) +
\* len(programName or ""), the label being the severity's text.
UsedWidth ==
  Len(prefix) + Len(LevelText(einfo.level)) + 3 + Len(einfo.name)
    + Len(value_or(programName, <<>>))

\* The dashes of the divider's padding run: those of the line without the
\* fixed lead-in (" --- " before a name, " -----" without one).
PaddingDashes == CountChar(out[1], "-") - (IF einfo.name # <<>> THEN 3 ELSE 5)

\* C1: for every severity of the enumeration, name and programName with
\* usedWidth <= 77, the divider's visible length (its length without the
\* color escape sequences) is exactly 80, with colors on and with colors off.
C1_HeaderVisibleWidthIs80 ==
  (pc # "divider" /\ einfo.level \in Verbosity /\ UsedWidth <= 77)
    => Len(Visible(out[1])) = 80

\* C2: the padding run holds 3 dashes when usedWidth exceeds 77 and
\* 80 - usedWidth dashes otherwise, so never fewer than 3, and the name is
\* written in full.
C2_DashCount ==
  pc # "divider" =>
    /\ PaddingDashes = (IF UsedWidth > 77 THEN 3 ELSE 80 - UsedWidth)
    /\ PaddingDashes >= 3
    /\ CountChar(out[1], "N") = Len(einfo.name)

\* Whether s starts with p.
StartsWith(s, p) == Len(s) >= Len(p) /\ SubSeq(s, 1, Len(p)) = p

\* C3: for a position in the file "(string)", the one getCodeLines does not
\* read, with a line > 0, the report holds the line "from command line
\* argument" and no "in file:" line, and open() is never called.
C3_SentinelFromCommandLine ==
  (/\ has_value(einfo.nixCode)
   /\ einfo.nixCode[1].errPos.file = StringFile
   /\ einfo.nixCode[1].errPos.line > 0
   /\ pc \notin {"divider", "position"})
    => /\ \E i \in 1..Len(out) : out[i] = prefix \o FromCommandLine
       /\ \A i \in 1..Len(out) : ~StartsWith(out[i], prefix \o InFile)
       /\ opens = 0

\* The numbered lines printCodeLines owes to prevLineOfCode and nextLineOfCode.
PrevNextLines ==
  (IF has_value(nixcode.prevLineOfCode)
   THEN << CodeLine(prefix, nixcode.errPos.line - 1, nixcode.prevLineOfCode[1]) >>
   ELSE <<>>)
  \o (IF has_value(nixcode.nextLineOfCode)
      THEN << CodeLine(prefix, nixcode.errPos.line + 1, nixcode.nextLineOfCode[1]) >>
      ELSE <<>>)

\* C4 as stated: printCodeLines, given a NixCode without errLineOfCode,
\* writes nothing, whatever prevLineOfCode and nextLineOfCode hold.
C4_NothingWithoutErrLine ==
  (pc = "returned" /\ ~has_value(nixcode.errLineOfCode)) => out = <<>>

\* C4 as amended: printCodeLines, given a NixCode without errLineOfCode,
\* writes no line for the error and no caret: it writes the numbered line
\* of prevLineOfCode and of nextLineOfCode, each when present, and nothing
\* else.
C4_OnlyPrevNextWithoutErrLine ==
  (pc = "returned" /\ ~has_value(nixcode.errLineOfCode)) => out = PrevNextLines

\* printCodeLines returned from a NixCode with a previous line, a column and
\* no error line.
C4_Witness ==
  /\ pc = "returned"
  /\ ~has_value(nixcode.errLineOfCode)
  /\ has_value(nixcode.prevLineOfCode)
  /\ nixcode.errPos.column > 0
  /\ Len(out) = 1

\* C5: writing an ErrorInfo that has a nixCode and no hint is defined: it
\* does not crash, and ends with an empty prefixed line and a blank prefix
\* line.
C5_AbsentHintRendersEmpty ==
  (has_value(einfo.nixCode) /\ ~has_value(einfo.hint))
    => /\ pc # "crashed"
       /\ pc = "done" =>
            /\ Len(out) >= 2
            /\ out[Len(out) - 1] = prefix
            /\ out[Len(out)] = prefix

\* What operator<< wrote before it called getCodeLines.
Preamble ==
  <<HeaderLine(einfo.level, einfo.name, programName)>>
    \o PositionLines(einfo.nixCode[1].errPos)
    \o DescriptionLines(einfo.description)

\* C6: when the position's file cannot be opened, or a read of it fails,
\* operator<< still returns: it never crashes, the divider, the position
\* line and the description are written, the failure is only logged, and
\* the lines of code are left out (open failure) or are those read before
\* the failure (read failure).
C6_IoFailureAbsorbed ==
  errlog # <<>> =>
    /\ pc # "crashed"
    /\ Len(errlog) = 1
    /\ StartsWith(out, Preamble)
    /\ (errlog[1] = "opening file" /\ pc = "hint") => out = Preamble
    /\ (errlog[1] = "reading a line" /\ pc = "hint") =>
         out = Preamble \o (IF has_value(nixcode.errLineOfCode)
                            THEN printCodeLines(prefix, nixcode) \o <<prefix>>
                            ELSE <<>>)

\* The file was opened and read without a failure, and the loop has ended.
ReadToTheEnd == fd = "closed" /\ errlog = <<>>

\* Line i of the file when it has one, as an optional.
LineOfFile(i) == IF 1 <= i /\ i <= disk.n THEN <<FileLine(i)>> ELSE nullopt

\* The lines operator<< wrote between the description and the blank line
\* that ends the lines of code.
CodeBlock == SubSeq(out, Len(Preamble) + 1, Len(out) - 1)

\* C7: for a readable file of n lines and a position with line L > 0,
\* getCodeLines leaves prevLineOfCode = line L-1 exactly when 1 <= L-1 <= n,
\* errLineOfCode = line L exactly when L <= n and nextLineOfCode = line L+1
\* exactly when L+1 <= n; for a file of 2 lines and L = 2 the lines of code
\* written are the two numbered lines 1 and 2, followed by the caret line
\* when the column is known.
C7_SnippetLines ==
  ReadToTheEnd =>
    /\ nixcode.prevLineOfCode = LineOfFile(nixcode.errPos.line - 1)
    /\ nixcode.errLineOfCode = LineOfFile(nixcode.errPos.line)
    /\ nixcode.nextLineOfCode = LineOfFile(nixcode.errPos.line + 1)
    /\ (disk.n = 2 /\ nixcode.errPos.line = 2 /\ pc = "hint") =>
         CodeBlock = << CodeLine(prefix, 1, FileLine(1)), CodeLine(prefix, 2, FileLine(2)) >>
                       \o (IF nixcode.errPos.column > 0
                           THEN << CaretLine(prefix, nixcode.errPos.column) >>
                           ELSE <<>>)

\* The lines of code of line 2, column 2 of a file of 2 lines were written.
C7_Witness ==
  /\ ReadToTheEnd
  /\ pc = "hint"
  /\ disk.n = 2
  /\ nixcode.errPos.line = 2
  /\ nixcode.errPos.column = 2
  /\ Len(CodeBlock) = 3
  /\ ~has_value(nixcode.nextLineOfCode)

\* C8 as stated: in the NixCode getCodeLines fills in, nextLineOfCode
\* present implies errLineOfCode present, and errLineOfCode present implies
\* prevLineOfCode present.
C8_LeftToRight ==
  /\ has_value(nixcode.nextLineOfCode) => has_value(nixcode.errLineOfCode)
  /\ has_value(nixcode.errLineOfCode) => has_value(nixcode.prevLineOfCode)

\* C8 as amended: nextLineOfCode present implies errLineOfCode present, and
\* errLineOfCode present implies prevLineOfCode present unless the position
\* is on line 1, which has no previous line: prevLineOfCode then stays absent.
C8_LeftToRightFromLine2 ==
  /\ has_value(nixcode.nextLineOfCode) => has_value(nixcode.errLineOfCode)
  /\ (has_value(nixcode.errLineOfCode) /\ nixcode.errPos.line > 1)
       => has_value(nixcode.prevLineOfCode)
  /\ nixcode.errPos.line = 1 => ~has_value(nixcode.prevLineOfCode)

\* getCodeLines returned the first two lines of a file for a position on line 1.
C8_Witness ==
  /\ pc = "printCodeLines"
  /\ nixcode.errPos.line = 1
  /\ has_value(nixcode.errLineOfCode)
  /\ has_value(nixcode.nextLineOfCode)
  /\ ~has_value(nixcode.prevLineOfCode)

\* The index of the first "|" of s, 0 when it has none.
FirstBar(s) ==
  IF \E i \in 1..Len(s) : s[i] = "|"
  THEN CHOOSE i \in 1..Len(s) : s[i] = "|" /\ \A j \in 1..(i - 1) : s[j] # "|"
  ELSE 0

\* Where printCodeLines wrote the line of the error.
ErrIndex == IF has_value(nixcode.prevLineOfCode) THEN 2 ELSE 1

\* The width of what precedes the text in the line of the error.
GutterWidth == Len(Visible(out[ErrIndex])) - Len(nixcode.errLineOfCode[1])

\* C9: with errLineOfCode present, a column c > 0 and line numbers of at
\* most 5 digits, the caret line's gutter is as wide as the numbered lines'
\* (the "|" stands in the same visible column on every line), and the "^"
\* stands in the visible column of the c-th character of the error line's
\* text, c characters past the gutter.
C9_CaretAligned ==
  (/\ pc = "returned"
   /\ has_value(nixcode.errLineOfCode)
   /\ nixcode.errPos.column > 0
   /\ nixcode.errPos.line <= 99999
   /\ has_value(nixcode.nextLineOfCode) => nixcode.errPos.line + 1 <= 99999)
    => LET caret == Visible(out[ErrIndex + 1])
           errl == Visible(out[ErrIndex])
           text == nixcode.errLineOfCode[1]
           c == nixcode.errPos.column
       IN /\ \A i \in 1..Len(out) : FirstBar(Visible(out[i])) = FirstBar(caret)
          /\ FirstBar(caret) > 0
          /\ Len(caret) = GutterWidth + c
          /\ caret[GutterWidth + c] = "^"
          /\ \A i \in 1..(GutterWidth + c - 1) : caret[i] \in {" ", "|"}
          /\ c <= Len(text) => errl[GutterWidth + c] = text[c]

\* Lines 2, 3 and 4 and the caret of line 3, column 4 were written.
C9_Witness ==
  /\ pc = "returned"
  /\ nixcode.errPos.line = 3
  /\ nixcode.errPos.column = 4
  /\ has_value(nixcode.prevLineOfCode)
  /\ nixcode.errLineOfCode = <<LetX>>
  /\ has_value(nixcode.nextLineOfCode)
  /\ Len(out) = 4
  /\ Visible(out[3])[GutterWidth + 4] = "^"

\* What C10 says of every state: readLine is called at most L+1 times and at
\* most once past the end of the file; once nextLineOfCode is recorded,
\* exactly L+1 lines were read and the loop has been left; and the file
\* handle is open only inside the loop.
C10_Bounded ==
  /\ reads <= disk.n + 1
  /\ reads > 0 => reads <= nixcode.errPos.line + 1
  /\ has_value(nixcode.nextLineOfCode) =>
       reads = nixcode.errPos.line + 1 /\ pc # "readLine"
  /\ pc # "readLine" => fd # "open"
  /\ opens = 0 => fd = "none"

\* C10: the read loop of getCodeLines ends: it stops right after recording
\* nextLineOfCode, having read exactly L+1 lines, or at the end of the
\* stream, never reads past line L+1, and the file handle is closed when it
\* returns, however the loop was left.
C10_ReadLoopTerminates ==
  /\ []C10_Bounded
  /\ (pc = "readLine") ~> (pc = "printCodeLines" /\ fd = "closed")

\* The loop was left by its break, after L+1 reads, and the handle is closed.
C10_Witness ==
  /\ pc = "printCodeLines"
  /\ has_value(nixcode.nextLineOfCode)
  /\ reads = nixcode.errPos.line + 1
  /\ fd = "closed"

====
